---- MODULE Spec2Model ----
(***************************************************************************)
(* Chess risk analyzer: the "Analyze Game" flow of app.py driving          *)
(* GameAnalyzer -> RiskCalculator -> StockfishAnalyzer.                    *)
(*                                                                         *)
(* Abstractions.                                                           *)
(*  - A move of the input mainline is identified by its index; the value   *)
(*    stored for it is whether it is legal in the position reached by      *)
(*    applying the legal moves before it.                                  *)
(*  - A chess.Board is its move stack (games start from the standard       *)
(*    position, White to move, full move 1).                               *)
(*  - An optional value (None or x) is the sequence <<>> or <<x>>.         *)
(*  - Risk scores are kept in hundredths of a point (7.5 is 750) and       *)
(*    downside_risk in percent, so the weighted sum stays in the integers. *)
(*  - An average is the exact fraction [num, den].                         *)
(***************************************************************************)
EXTENDS Integers, Sequences, FiniteSets, TLC

\* Bounds of the exploration.
MaxMoves == 3
FineMoves == 1
MaxCap == 1
MaxCalls == 2
MaxSims == 2
MaxHorizon == 2
MaxSamples == 3
MaxLegal == 6
MaxDraws == 2

\* GameAnalyzer thresholds and the mate sentinel.
BLUNDER_THRESHOLD == 300
MISTAKE_THRESHOLD == 150
INACCURACY_THRESHOLD == 50
MATE_SCORE == 10000

\* calculate_risk_metrics: the look-ahead it asks of monte_carlo_simulation.
DEPTH_HORIZON == 2
TOP_CANDIDATES == 5

VARIABLES
    pc,          \* position of the control flow
    proc,        \* the engine process: "none", "running" or "terminated"
    quits,       \* number of engine.quit() calls made
    oracle,      \* what the engine of this run may answer: [infos, metrics]
    game,        \* the parsed game: [parsed, mainline]
    max_moves,   \* the max_moves argument (None or a number)
    moves,       \* analyze_game: the move list after the cap
    idx,         \* analyze_game: index of the move of the current iteration
    board,       \* analyze_game: the working board
    loc,         \* analyze_move: its local variables
    analysis,    \* analyze_move: the MoveAnalysis returned (None before)
    analyses,    \* analyze_game: the list built so far
    report,      \* the report returned by analyze_pgn_string
    boardAtCall, \* history: the board when analyze_move was entered
    attempted,   \* history: the indices analyze_move was called for
    completed,   \* history: the indices analyze_move returned normally for
    exc,         \* the exception that reached the caller's handler (None if none)
    engineFailed,\* history: some engine call of the analysis raised
    metrics,     \* risk_score: the RiskMetrics argument
    feat,        \* cheap variant: the position's complexity and tactical density
    riskResult,  \* the risk score returned: None or [variant, score]
    callers,     \* threads sharing one StockfishAnalyzer: [op, calls, result,
                 \* failed]; failed: engine.analyse raised in the last call
    inflight,    \* the threads whose engine.analyse request is in flight
    stockfish_installed, \* a fixed path exists or stockfish is on PATH
    sim,         \* monte_carlo_simulation / calculate_risk_metrics: arguments,
                 \* locals, the trials made so far and the result
    mono,        \* a metric computed for an input and for a changed input:
                 \* [evaluations, counts, op, before, after]
    spm,         \* sample_plausible_moves: arguments, the engine's candidates
                 \* and the moves drawn so far
    fx,          \* PositionFeatures.extract_all_features: the board, the
                 \* position's counts and the features computed so far
    sam          \* StockfishAnalyzer.analyze_move: the board, the engine's
                 \* answers, the two evaluations and the result

vars == <<pc, proc, quits, oracle, game, max_moves, moves, idx, board, loc,
          analysis, analyses, report, boardAtCall, attempted, completed,
          exc, engineFailed, metrics, feat, riskResult, callers, inflight,
          stockfish_installed, sim, mono, spm, fx, sam>>

None == <<>>
Some(x) == <<x>>

Min(a, b) == IF a < b THEN a ELSE b
Max(a, b) == IF a > b THEN a ELSE b

Rat(n, d) == [num |-> n, den |-> d]

EmptyDict == [k \in {} |-> 0]

-----------------------------------------------------------------------------
(* chess.Board *)

Push(b, m) == Append(b, m)
Pop(b) == SubSeq(b, 1, Len(b) - 1)
WhiteToMove(b) == Len(b) % 2 = 0
FullMoveNumber(b) == 1 + (Len(b) \div 2)
Fen(b) == [placement |-> b, white |-> WhiteToMove(b), fullmove |-> FullMoveNumber(b)]

\* The moves before index i that are legal in their place, in order: the
\* position in which move i is reached when the working board is in step.
RECURSIVE LegalPrefix(_, _)
LegalPrefix(ms, i) ==
    IF i <= 1 THEN <<>>
    ELSE IF ms[i - 1] THEN Append(LegalPrefix(ms, i - 1), i - 1)
         ELSE LegalPrefix(ms, i - 1)

\* board.san(move) raises for a move that is not legal on the board.  On the
\* board the move was played on, that is the move's own legality.  One ply
\* behind that board the side to move does not own the piece on the move's
\* from-square, so the move is illegal.  On any other board the answer depends
\* on the position: either.
\* Variant: san() accepts any move.
SanLegal_unchecked(b, ms, i) == {TRUE}

SanLegal(b, ms, i) ==
    LET want == LegalPrefix(ms, i) IN
    IF b = want THEN {ms[i]}
    ELSE IF Len(want) > 0 /\ b = Pop(want) THEN {FALSE}
    ELSE BOOLEAN

-----------------------------------------------------------------------------
(* StockfishAnalyzer.evaluate_position *)

PvChoices == {"played", "other", "none"}

Infos(cps, mates) ==
    {[cp |-> Some(c), mate |-> None, pv |-> p] : c \in cps, p \in PvChoices}
    \cup {[cp |-> None, mate |-> Some(n), pv |-> p] : n \in mates, p \in PvChoices}

CoarseInfos == Infos({0, 400}, {})
FineInfos ==
    Infos({0, 50, 100, 150, 200, 300, 400}, {0 - 1, 0, 1})
    \cup {[cp |-> None, mate |-> None, pv |-> "none"]}

\* Variant: a mate score is not turned into the sentinel.
EvaluatePosition_noMate(info) ==
    [score |-> IF info.cp # None THEN info.cp[1] ELSE 0,
     mate_in |-> info.mate,
     best_move |-> IF info.pv # "none" THEN info.pv ELSE ""]

\* Variant: a mate distance of 0 counts for the side to move.
EvaluatePosition_mateZeroWins(info) ==
    [score |->
        IF info.mate # None
        THEN (IF info.mate[1] >= 0 THEN MATE_SCORE ELSE 0 - MATE_SCORE)
        ELSE (IF info.cp # None THEN info.cp[1] ELSE 0),
     mate_in |-> info.mate,
     best_move |-> IF info.pv # "none" THEN info.pv ELSE ""]

EvaluatePosition(info) ==
    [score |->
        IF info.mate # None
        THEN (IF info.mate[1] > 0 THEN MATE_SCORE ELSE 0 - MATE_SCORE)
        ELSE (IF info.cp # None THEN info.cp[1] ELSE 0),
     mate_in |-> info.mate,
     best_move |-> IF info.pv # "none" THEN info.pv ELSE ""]

-----------------------------------------------------------------------------
(* RiskCalculator.risk_score, in hundredths of a point *)

\* Variant: the lower clamp is missing.
RiskScore_noFloor(m) ==
    LET vol_component == Min(m.volatility, 1000) * 3
        downside_component == m.downside_risk * 25
        complexity_component == m.complexity_risk * 20
        tactical_component == m.tactical_density * 15
        edge_reduction == Min(m.best_move_edge, 100) * 10
        total == vol_component + downside_component + complexity_component
                 + tactical_component - edge_reduction
    IN Min(total, 10000)

\* Variant: the volatility term is not capped.
RiskScore_uncappedVolatility(m) ==
    LET vol_component == m.volatility * 3
        downside_component == m.downside_risk * 25
        complexity_component == m.complexity_risk * 20
        tactical_component == m.tactical_density * 15
        edge_reduction == Min(m.best_move_edge, 100) * 10
        risk == vol_component + downside_component + complexity_component
                + tactical_component - edge_reduction
    IN Max(0, Min(risk, 10000))

RiskScore(m) ==
    LET vol_component == Min(m.volatility, 1000) * 3
        downside_component == m.downside_risk * 25
        complexity_component == m.complexity_risk * 20
        tactical_component == m.tactical_density * 15
        edge_reduction == Min(m.best_move_edge, 100) * 10
        risk == vol_component + downside_component + complexity_component
                + tactical_component - edge_reduction
    IN Max(0, Min(risk, 10000))

\* The metrics of a sample list.  A quotient is the exact fraction; the
\* standard deviation is rounded down to whole centipawns.
RECURSIVE Sum(_)
Sum(s) == IF s = <<>> THEN 0 ELSE Head(s) + Sum(Tail(s))

Abs(x) == IF x < 0 THEN 0 - x ELSE x

Isqrt(x) == CHOOSE r \in 0..x : r * r <= x /\ x < (r + 1) * (r + 1)

calculate_volatility(evaluations) ==
    IF Len(evaluations) < 2 THEN 0
    ELSE LET n == Len(evaluations)
             total == Sum(evaluations)
             dev == [k \in DOMAIN evaluations |->
                        (n * evaluations[k] - total) * (n * evaluations[k] - total)]
         IN Isqrt(Sum(dev) \div (n * n * n))

\* np.percentile(evaluations, 5), linear interpolation; for fewer than 21
\* samples the 5th percentile lies between the two smallest.
calculate_var(evaluations) ==
    IF evaluations = <<>> THEN Rat(0, 1)
    ELSE LET n == Len(evaluations)
             lo == CHOOSE i \in DOMAIN evaluations :
                      \A j \in DOMAIN evaluations : evaluations[i] <= evaluations[j]
             rest == DOMAIN evaluations \ {lo}
         IN IF rest = {} THEN Rat(evaluations[lo], 1)
            ELSE LET nx == CHOOSE i \in rest :
                              \A j \in rest : evaluations[i] <= evaluations[j]
                 IN Rat(100 * evaluations[lo]
                          + 5 * (n - 1) * (evaluations[nx] - evaluations[lo]), 100)

\* Variant: a sample equal to the threshold counts, and a sample above it
\* counts against.
calculate_downside_risk_above(evaluations, threshold) ==
    IF evaluations = <<>> THEN Rat(0, 1)
    ELSE Rat(Cardinality({k \in DOMAIN evaluations : evaluations[k] > threshold}),
             Len(evaluations))

\* Variant: a sample equal to the threshold counts as below it.
calculate_downside_risk_inclusive(evaluations, threshold) ==
    IF evaluations = <<>> THEN Rat(0, 1)
    ELSE Rat(Cardinality({k \in DOMAIN evaluations : evaluations[k] <= threshold}),
             Len(evaluations))

calculate_downside_risk(evaluations, threshold) ==
    IF evaluations = <<>> THEN Rat(0, 1)
    ELSE Rat(Cardinality({k \in DOMAIN evaluations : evaluations[k] < threshold}),
             Len(evaluations))

calculate_tactical_density(checks, captures, hanging_count) ==
    Min(checks * 5 + captures * 2 + hanging_count * 3, 100)

calculate_move_edge(top_moves) ==
    IF Len(top_moves) < 2 THEN 0
    ELSE Abs(top_moves[1].score - top_moves[2].score)

\* Variant: the mean is taken of the empty list too.
ExpectedValue_noFallback(evaluations, current_eval) ==
    Rat(Sum(evaluations), Len(evaluations))

\* calculate_risk_metrics, line 162.
ExpectedValue(evaluations, current_eval) ==
    IF evaluations # <<>> THEN Rat(Sum(evaluations), Len(evaluations))
    ELSE Rat(current_eval.score, 1)

Metrics(v, d, c, t, e) ==
    [volatility |-> v, downside_risk |-> d, complexity_risk |-> c,
     tactical_density |-> t, best_move_edge |-> e]

\* The metrics calculate_risk_metrics may return during a game analysis.
CoarseMetrics == {Metrics(0, 0, 30, 10, 0)}
FineMetrics == {Metrics(0, 0, 30, 10, 0), Metrics(500, 50, 60, 40, 0)}

\* The answers explored: a coarse engine for every game, a fine-grained one
\* for the games of at most FineMoves moves.
CoarseOracle == [infos |-> CoarseInfos, metrics |-> CoarseMetrics, mated |-> {}]
FineOracle == [infos |-> FineInfos, metrics |-> FineMetrics, mated |-> {}]

\* Scholar's Mate, e4 e5 Bc4 Nc6 Qh5 Nf6 Qxf7#: seven legal half-moves, the
\* side to move is checkmated on the board after the last.
ScholarsMate == <<TRUE, TRUE, TRUE, TRUE, TRUE, TRUE, TRUE>>
MateOracle ==
    [infos |-> {[cp |-> Some(0), mate |-> None, pv |-> "played"]},
     metrics |-> CoarseMetrics,
     mated |-> {[k \in DOMAIN ScholarsMate |-> k]}]

\* The engine's answers for board b: on a checkmated board, mate in 0.
Answers(b) ==
    IF b \in oracle.mated THEN {[cp |-> None, mate |-> Some(0), pv |-> "none"]}
    ELSE oracle.infos

-----------------------------------------------------------------------------
(* GameAnalyzer.analyze_move: classification *)

\* Variant: the blunder threshold is inclusive.
WasBlunder_inclusive(eval_change) == eval_change <= 0 - BLUNDER_THRESHOLD

\* Variant: an inaccuracy has no lower end.
WasInaccuracy_open(eval_change) == 0 - INACCURACY_THRESHOLD > eval_change

WasBlunder(eval_change) == eval_change < 0 - BLUNDER_THRESHOLD
\* Variant: a mistake has no lower end.
WasMistake_open(eval_change) == 0 - MISTAKE_THRESHOLD > eval_change

WasMistake(eval_change) ==
    0 - MISTAKE_THRESHOLD > eval_change /\ eval_change >= 0 - BLUNDER_THRESHOLD
WasInaccuracy(eval_change) ==
    0 - INACCURACY_THRESHOLD > eval_change /\ eval_change >= 0 - MISTAKE_THRESHOLD

NoLoc ==
    [white_to_move |-> TRUE, fen_before |-> None, fen_after |-> None,
     risk_score |-> 0, eval_before |-> 0, is_best |-> FALSE, eval_after |-> 0]

MoveAnalysis(b, i, l) ==
    LET eval_change == l.eval_after - l.eval_before IN
    [move_number |-> FullMoveNumber(b),
     move |-> i,
     fen_before |-> l.fen_before,
     fen_after |-> l.fen_after,
     white_to_move |-> l.white_to_move,
     eval_before |-> l.eval_before,
     eval_after |-> l.eval_after,
     eval_change |-> eval_change,
     is_best_move |-> l.is_best,
     risk_score |-> l.risk_score,
     was_blunder |-> WasBlunder(eval_change),
     was_mistake |-> WasMistake(eval_change),
     was_inaccuracy |-> WasInaccuracy(eval_change)]

-----------------------------------------------------------------------------
(* GameAnalyzer.generate_game_report *)

RECURSIVE SumRisk(_)
SumRisk(s) == IF s = <<>> THEN 0 ELSE Head(s).risk_score + SumRisk(Tail(s))

RECURSIVE SumLoss(_)
SumLoss(s) == IF s = <<>> THEN 0 ELSE Min(0, Head(s).eval_change) + SumLoss(Tail(s))

RECURSIVE MaxRisk(_)
MaxRisk(s) ==
    IF Len(s) = 1 THEN Head(s).risk_score
    ELSE Max(Head(s).risk_score, MaxRisk(Tail(s)))

Count(s, flag) == Cardinality({k \in DOMAIN s : s[k][flag]})

IsWhite(a) == a.white_to_move
IsBlack(a) == ~a.white_to_move

ZeroStats ==
    [avg_risk_score |-> Rat(0, 1), max_risk_score |-> 0, num_blunders |-> 0,
     num_mistakes |-> 0, num_inaccuracies |-> 0, num_best_moves |-> 0,
     avg_eval_loss |-> Rat(0, 1), accuracy |-> Rat(0, 1)]

\* Variant: the empty side is not special-cased; the quotients have a zero
\* denominator.
color_stats_unguarded(color_analyses) ==
    [avg_risk_score |-> Rat(SumRisk(color_analyses), Len(color_analyses)),
     max_risk_score |-> IF color_analyses = <<>> THEN 0 ELSE MaxRisk(color_analyses),
     num_blunders |-> Count(color_analyses, "was_blunder"),
     num_mistakes |-> Count(color_analyses, "was_mistake"),
     num_inaccuracies |-> Count(color_analyses, "was_inaccuracy"),
     num_best_moves |-> Count(color_analyses, "is_best_move"),
     avg_eval_loss |-> Rat(SumLoss(color_analyses), Len(color_analyses)),
     accuracy |-> Rat(Count(color_analyses, "is_best_move") * 100, Len(color_analyses))]

color_stats(color_analyses) ==
    IF color_analyses = <<>> THEN ZeroStats
    ELSE [avg_risk_score |-> Rat(SumRisk(color_analyses), Len(color_analyses)),
          max_risk_score |-> MaxRisk(color_analyses),
          num_blunders |-> Count(color_analyses, "was_blunder"),
          num_mistakes |-> Count(color_analyses, "was_mistake"),
          num_inaccuracies |-> Count(color_analyses, "was_inaccuracy"),
          num_best_moves |-> Count(color_analyses, "is_best_move"),
          avg_eval_loss |-> Rat(SumLoss(color_analyses), Len(color_analyses)),
          accuracy |-> Rat(Count(color_analyses, "is_best_move") * 100, Len(color_analyses))]

\* max(analyses, key=risk_score): the first entry of the highest risk score.
HighestRisk(s) ==
    LET top == MaxRisk(s)
        first == CHOOSE k \in DOMAIN s :
                    /\ s[k].risk_score = top
                    /\ \A j \in DOMAIN s : s[j].risk_score = top => k <= j
    IN s[first]

generate_game_report(as) ==
    IF as = <<>>
    THEN [total_moves |-> 0, white |-> EmptyDict, black |-> EmptyDict,
          highest_risk_move |-> 0, total_blunders |-> 0, total_mistakes |-> 0]
    ELSE [total_moves |-> Len(as),
          white |-> color_stats(SelectSeq(as, IsWhite)),
          black |-> color_stats(SelectSeq(as, IsBlack)),
          highest_risk_move |-> HighestRisk(as).move_number,
          total_blunders |-> Count(as, "was_blunder"),
          total_mistakes |-> Count(as, "was_mistake")]

-----------------------------------------------------------------------------
(* Inputs *)

RECURSIVE SeqsUpTo(_, _)
SeqsUpTo(S, n) ==
    IF n = 0 THEN {<<>>}
    ELSE LET shorter == SeqsUpTo(S, n - 1) IN
         shorter \cup {Append(s, x) : s \in {t \in shorter : Len(t) = n - 1}, x \in S}

Games ==
    {[parsed |-> FALSE, mainline |-> <<>>]}
    \cup {[parsed |-> TRUE, mainline |-> ms] : ms \in SeqsUpTo(BOOLEAN, MaxMoves)}

MaxMovesArgs == {None} \cup {Some(n) : n \in 0..MaxCap}

Threads == {"t1", "t2"}

NoMetrics == Metrics(0, 0, 0, 0, 0)
NoFeat == [complexity |-> 0, tactical_density |-> 0]
IdleCaller == [op |-> "idle", calls |-> 0, result |-> None, failed |-> FALSE]

\* No risk_score call under way.
NoRiskCall ==
    /\ metrics = NoMetrics
    /\ feat = NoFeat
    /\ riskResult = None

\* No simulation under way.
NoSim ==
    [entry |-> "none", n_simulations |-> 0, depth_horizon |-> 0, board |-> <<>>,
     boardAtCall |-> <<>>, over_after |-> None, sim_board |-> <<>>, step |-> 0,
     stop |-> "", evaluations |-> <<>>, trials |-> <<>>, result |-> None]

NoMono ==
    [evaluations |-> <<>>, counts |-> <<0, 0, 0>>, op |-> "", before |-> Rat(0, 1),
     after |-> Rat(0, 1), position |-> None]

NoSpm ==
    [legal |-> 0, n_samples |-> 0, requested |-> None, top_moves |-> <<>>,
     sampled_moves |-> <<>>, draws |-> 0, result |-> None]

NoFx ==
    [board |-> <<>>, boardAtCall |-> <<>>, position |-> None, site |-> "",
     current_mobility |-> 0, opponent_mobility |-> 0, mobilities |-> <<>>,
     swallowed |-> <<>>, result |-> None]

NoSam ==
    [board |-> <<>>, boardAtCall |-> <<>>, move |-> "", infos |-> <<>>,
     eval_before |-> None, eval_after |-> None, result |-> None]

\* No call of a helper (sampling, feature extraction, the analyzer's own
\* analyze_move) under way.
NoHelperCall ==
    /\ spm = NoSpm
    /\ fx = NoFx
    /\ sam = NoSam

\* Neither a simulation nor a comparison of metrics under way.
NoSimulation ==
    /\ sim = NoSim
    /\ mono = NoMono
    /\ NoHelperCall

\* No thread shares the analyzer.
NoSharing ==
    /\ callers = [t \in Threads |-> IdleCaller]
    /\ inflight = {}

\* The analyze_game loop has not started.
NoLoop ==
    /\ moves = <<>>
    /\ idx = 0
    /\ board = <<>>
    /\ loc = NoLoc
    /\ analysis = None
    /\ analyses = <<>>
    /\ report = EmptyDict
    /\ boardAtCall = <<>>
    /\ attempted = {}
    /\ completed = {}
    /\ exc = None
    /\ engineFailed = FALSE

Init ==
    /\ pc = "start"
    /\ proc = "none"
    /\ quits = 0
    /\ stockfish_installed \in BOOLEAN
    /\ game \in Games \cup {[parsed |-> TRUE, mainline |-> ScholarsMate]}
    /\ max_moves \in MaxMovesArgs
    /\ oracle \in {CoarseOracle, FineOracle, MateOracle}
    /\ oracle = FineOracle => Len(game.mainline) <= FineMoves /\ max_moves = None
    /\ oracle = MateOracle <=> game.mainline = ScholarsMate
    /\ oracle = MateOracle => max_moves = None /\ stockfish_installed
    /\ NoRiskCall
    /\ NoSharing
    /\ NoLoop
    /\ NoSimulation

-----------------------------------------------------------------------------
(* app.py, "Analyze Game": construction *)

gameVars == <<game, max_moves, oracle, metrics, feat, riskResult, callers, inflight,
              stockfish_installed, sim, mono, spm, fx, sam>>
loopVars == <<moves, idx, board, loc, analysis, analyses, boardAtCall,
              attempted, completed, engineFailed>>

\* GameAnalyzer(...) -> RiskCalculator(...) -> StockfishAnalyzer.__init__:
\* locate the binary, launch the process, configure the thread count.  An
\* exception leaves __init__ at once and reaches the handler of app.py.
\* Variant: a missing executable is not noticed at construction.
StockfishAnalyzer_init_deferred ==
    /\ pc = "start"
    /\ pc' = "constructed"
    /\ proc' = IF stockfish_installed THEN "running" ELSE "none"
    /\ UNCHANGED <<quits, report, exc>>
    /\ UNCHANGED gameVars
    /\ UNCHANGED loopVars

StockfishAnalyzer_init ==
    /\ pc = "start"
    /\ \/ /\ ~stockfish_installed                   \* get_stockfish_path
          /\ exc' = Some("FileNotFoundError")
          /\ pc' = "app_error"
          /\ UNCHANGED proc
       \/ /\ stockfish_installed                    \* popen_uci fails
          /\ exc' = Some("EngineError")
          /\ pc' = "app_error"
          /\ UNCHANGED proc
       \/ /\ stockfish_installed                    \* configure fails
          /\ proc' = "running"
          /\ exc' = Some("EngineError")
          /\ pc' = "app_error"
       \/ /\ stockfish_installed
          /\ proc' = "running"
          /\ pc' = "constructed"
          /\ UNCHANGED exc
    /\ UNCHANGED <<quits, report>>
    /\ UNCHANGED gameVars
    /\ UNCHANGED loopVars

\* analyze_pgn_string, lines 186-188: the parser found no game.
ParseNoGame ==
    /\ pc = "constructed"
    /\ ~game.parsed
    /\ analyses' = <<>>
    /\ report' = EmptyDict
    /\ pc' = "analysed"
    /\ UNCHANGED <<proc, quits, exc, moves, idx, board, loc, analysis,
                   boardAtCall, attempted, completed, engineFailed>>
    /\ UNCHANGED gameVars

Truthy(opt) == opt # None /\ opt[1] # 0

\* moves[:max_moves]
Slice(ms, n) == SubSeq(ms, 1, Min(n, Len(ms)))

\* analyze_game, lines 109-121: the working board and the capped move list.
AnalyzeGame_begin ==
    /\ pc = "constructed"
    /\ game.parsed
    /\ analyses' = <<>>
    /\ board' = <<>>
    /\ moves' = IF Truthy(max_moves) THEN Slice(game.mainline, max_moves[1])
                ELSE game.mainline
    /\ idx' = 1
    /\ pc' = "loop"
    /\ UNCHANGED <<proc, quits, exc, report, loc, analysis, boardAtCall,
                   attempted, completed, engineFailed>>
    /\ UNCHANGED gameVars

-----------------------------------------------------------------------------
(* GameAnalyzer.analyze_move, called from the loop of analyze_game *)

appVars == <<proc, quits, exc, report>>

Raise ==
    /\ pc' = "am_raised"
    /\ loc' = NoLoc

\* Lines 123-125 and 56-58: the call, fen_before, white_to_move, board.san.
AM_Begin ==
    /\ pc = "loop"
    /\ idx <= Len(moves)
    /\ boardAtCall' = board
    /\ attempted' = attempted \cup {idx}
    /\ \E legal \in SanLegal(board, moves, idx) :
          IF legal
          THEN /\ loc' = [NoLoc EXCEPT !.fen_before = Some(Fen(board)),
                                       !.white_to_move = WhiteToMove(board)]
               /\ pc' = "am_risk"
          ELSE Raise
    /\ UNCHANGED <<moves, idx, board, analysis, analyses, completed, engineFailed>>
    /\ UNCHANGED appVars
    /\ UNCHANGED gameVars

\* Lines 61-62: calculate_risk_metrics (its direct evaluation of the position
\* may raise) and risk_score.
AM_Risk ==
    /\ pc = "am_risk"
    /\ \/ Raise /\ engineFailed' = TRUE
       \/ /\ \E m \in oracle.metrics : loc' = [loc EXCEPT !.risk_score = RiskScore(m)]
          /\ pc' = "am_eval_before"
          /\ UNCHANGED engineFailed
    /\ UNCHANGED <<moves, idx, board, analysis, analyses, boardAtCall, attempted,
                   completed>>
    /\ UNCHANGED appVars
    /\ UNCHANGED gameVars

\* Line 65: the evaluation before the move.
AM_EvalBefore ==
    /\ pc = "am_eval_before"
    /\ \/ Raise /\ engineFailed' = TRUE
       \/ /\ \E info \in Answers(board) :
                loc' = [loc EXCEPT !.eval_before = EvaluatePosition(info).score]
          /\ pc' = "am_best"
          /\ UNCHANGED engineFailed
    /\ UNCHANGED <<moves, idx, board, analysis, analyses, boardAtCall, attempted,
                   completed>>
    /\ UNCHANGED appVars
    /\ UNCHANGED gameVars

\* Lines 68-70: a second evaluation gives the best move.
AM_BestMove ==
    /\ pc = "am_best"
    /\ \/ Raise /\ engineFailed' = TRUE
       \/ /\ \E info \in Answers(board) :
                loc' = [loc EXCEPT
                          !.is_best = (EvaluatePosition(info).best_move = "played")]
          /\ pc' = "am_push"
          /\ UNCHANGED engineFailed
    /\ UNCHANGED <<moves, idx, board, analysis, analyses, boardAtCall, attempted,
                   completed>>
    /\ UNCHANGED appVars
    /\ UNCHANGED gameVars

\* Lines 73-77: the move is pushed and the new position evaluated; the score is
\* negated to the mover's side.  An exception of the engine leaves the
\* function here, after the push.
AM_EvalAfter ==
    /\ pc = "am_push"
    /\ board' = Push(board, idx)
    /\ \/ Raise /\ engineFailed' = TRUE
       \/ /\ \E info \in Answers(board') :
                loc' = [loc EXCEPT !.fen_after = Some(Fen(board')),
                                   !.eval_after = 0 - EvaluatePosition(info).score]
          /\ pc' = "am_pop"
          /\ UNCHANGED engineFailed
    /\ UNCHANGED <<moves, idx, analysis, analyses, boardAtCall, attempted, completed>>
    /\ UNCHANGED appVars
    /\ UNCHANGED gameVars

\* Lines 80-105: the move is popped, the change classified, the record returned.
AM_Return ==
    /\ pc = "am_pop"
    /\ board' = Pop(board)
    /\ analysis' = Some(MoveAnalysis(board', idx, loc))
    /\ loc' = NoLoc
    /\ completed' = completed \cup {idx}
    /\ pc' = "am_returned"
    /\ UNCHANGED <<moves, idx, analyses, boardAtCall, attempted, engineFailed>>
    /\ UNCHANGED appVars
    /\ UNCHANGED gameVars

-----------------------------------------------------------------------------
(* GameAnalyzer.analyze_game: the rest of the loop body *)

\* Lines 126-127: the analysis is appended and the move played on the board.
AG_Append ==
    /\ pc = "am_returned"
    /\ analyses' = Append(analyses, analysis[1])
    /\ board' = Push(board, idx)
    /\ analysis' = None
    /\ idx' = idx + 1
    /\ pc' = "loop"
    /\ UNCHANGED <<moves, loc, boardAtCall, attempted, completed, engineFailed>>
    /\ UNCHANGED appVars
    /\ UNCHANGED gameVars

\* Variant: the handler leaves the loop.
AG_Except_break ==
    /\ pc = "am_raised"
    /\ idx' = Len(moves) + 1
    /\ pc' = "loop"
    /\ UNCHANGED <<moves, board, loc, analysis, analyses, boardAtCall, attempted,
                   completed, engineFailed>>
    /\ UNCHANGED appVars
    /\ UNCHANGED gameVars

\* Lines 128-130: the handler logs the error and goes on with the next move.
AG_Except ==
    /\ pc = "am_raised"
    /\ idx' = idx + 1
    /\ pc' = "loop"
    /\ UNCHANGED <<moves, board, loc, analysis, analyses, boardAtCall, attempted,
                   completed, engineFailed>>
    /\ UNCHANGED appVars
    /\ UNCHANGED gameVars

\* Line 132 and analyze_pgn_string, lines 190-193: the report of the list.
AG_Report ==
    /\ pc = "loop"
    /\ idx > Len(moves)
    /\ report' = generate_game_report(analyses)
    /\ pc' = "analysed"
    /\ UNCHANGED <<proc, quits, exc>>
    /\ UNCHANGED loopVars
    /\ UNCHANGED gameVars

\* app.py, line 396: analyzer.close() -> engine.quit().
Close ==
    /\ pc = "analysed"
    /\ proc' = "terminated"
    /\ quits' = quits + 1
    /\ pc' = "app_done"
    /\ UNCHANGED <<exc, report>>
    /\ UNCHANGED loopVars
    /\ UNCHANGED gameVars

Next ==
    \/ StockfishAnalyzer_init
    \/ ParseNoGame
    \/ AnalyzeGame_begin
    \/ AM_Begin
    \/ AM_Risk
    \/ AM_EvalBefore
    \/ AM_BestMove
    \/ AM_EvalAfter
    \/ AM_Return
    \/ AG_Append
    \/ AG_Except
    \/ AG_Report
    \/ Close

Spec == Init /\ [][Next]_vars

-----------------------------------------------------------------------------
(* risk_score on any RiskMetrics, and the cheap single-position variant *)

AnyMetrics ==
    {Metrics(v, d, c, t, e) :
        v \in {0 - 50, 0, 500, 20000}, d \in {0 - 10, 0, 50, 100, 150},
        c \in {0 - 20, 0, 50, 100, 300}, t \in {0, 100, 400},
        e \in {0 - 100, 0, 50, 1000}}

\* What position_complexity and calculate_tactical_density return: 0..100.
Features ==
    {[complexity |-> c, tactical_density |-> t] :
        c \in {0, 50, 100}, t \in {0, 30, 100}}

\* 0.5 * complexity + 0.5 * tactical density, the density capped at 50.
CheapRiskScore(f) == 50 * f.complexity + 50 * Min(f.tactical_density, 50)

mainVars == <<proc, quits, exc, report, game, max_moves, oracle, callers, inflight,
              stockfish_installed, sim, mono, spm, fx, sam>>

RiskScore_call ==
    /\ pc = "risk_start"
    /\ riskResult' = Some([variant |-> "full", score |-> RiskScore(metrics)])
    /\ pc' = "risk_done"
    /\ UNCHANGED <<metrics, feat>>
    /\ UNCHANGED mainVars
    /\ UNCHANGED loopVars

CheapRiskScore_call ==
    /\ pc = "risk_start"
    /\ riskResult' = Some([variant |-> "cheap", score |-> CheapRiskScore(feat)])
    /\ pc' = "risk_done"
    /\ UNCHANGED <<metrics, feat>>
    /\ UNCHANGED mainVars
    /\ UNCHANGED loopVars

\* An analyzer constructed and at rest, no game given.
AnalyzerReady ==
    /\ stockfish_installed = TRUE
    /\ proc = "running"
    /\ quits = 0
    /\ game = [parsed |-> FALSE, mainline |-> <<>>]
    /\ max_moves = None
    /\ oracle = CoarseOracle
    /\ NoLoop

InitRisk ==
    /\ pc = "risk_start"
    /\ AnalyzerReady
    /\ NoSharing
    /\ metrics \in AnyMetrics
    /\ feat \in Features
    /\ riskResult = None
    /\ NoSimulation

NextRisk == RiskScore_call \/ CheapRiskScore_call

SpecRisk == InitRisk /\ [][NextRisk]_vars

-----------------------------------------------------------------------------
(* Threads sharing one StockfishAnalyzer *)

\* The lines of a multipv answer.
Reply(cp, pv) == [cp |-> Some(cp), mate |-> None, pv |-> pv]
TopReplies ==
    LET lines == {Reply(0, "played"), Reply(400, "other")} IN
    {<<>>} \cup {<<a>> : a \in lines} \cup {<<a, b>> : a \in lines, b \in lines}

\* get_top_moves, lines 132-144: the candidates of the engine's answer.
GetTopMoves(reply) ==
    [k \in DOMAIN reply |->
        [move |-> reply[k].pv,
         score |-> IF reply[k].cp # None THEN reply[k].cp[1] ELSE 0,
         pv |-> <<reply[k].pv>>]]

Raised == [kind |-> "raised"]
Returns(v) == [kind |-> "returned", value |-> v]

sharedVars == <<pc, proc, quits, exc, report, game, max_moves, oracle, metrics,
                feat, riskResult, stockfish_installed, sim, mono, spm, fx, sam>>

\* evaluate_position, line 73: the request goes to the engine.
EvaluatePosition_call(t) ==
    /\ pc = "shared"
    /\ callers[t].op = "idle"
    /\ callers[t].calls < MaxCalls
    /\ callers' = [callers EXCEPT ![t].op = "evaluate_position",
                                  ![t].calls = @ + 1]
    /\ inflight' = inflight \cup {t}
    /\ UNCHANGED sharedVars
    /\ UNCHANGED loopVars

\* evaluate_position, lines 73-91: the answer, or the engine's exception.
EvaluatePosition_return(t) ==
    /\ pc = "shared"
    /\ callers[t].op = "evaluate_position"
    /\ \/ callers' = [callers EXCEPT ![t].op = "idle", ![t].failed = TRUE,
                                     ![t].result = Some(Raised)]
       \/ \E info \in oracle.infos :
             callers' = [callers EXCEPT
                           ![t].op = "idle", ![t].failed = FALSE,
                           ![t].result = Some(Returns(EvaluatePosition(info).score))]
    /\ inflight' = inflight \ {t}
    /\ UNCHANGED sharedVars
    /\ UNCHANGED loopVars

\* get_top_moves, line 124: the request goes to the engine.
GetTopMoves_call(t) ==
    /\ pc = "shared"
    /\ callers[t].op = "idle"
    /\ callers[t].calls < MaxCalls
    /\ callers' = [callers EXCEPT ![t].op = "get_top_moves", ![t].calls = @ + 1]
    /\ inflight' = inflight \cup {t}
    /\ UNCHANGED sharedVars
    /\ UNCHANGED loopVars

\* get_top_moves, lines 123-144: an exception of the engine gives [].
GetTopMoves_return(t) ==
    /\ pc = "shared"
    /\ callers[t].op = "get_top_moves"
    /\ \/ callers' = [callers EXCEPT ![t].op = "idle", ![t].failed = TRUE,
                                     ![t].result = Some(Returns(<<>>))]
       \/ \E reply \in TopReplies :
             callers' = [callers EXCEPT
                           ![t].op = "idle", ![t].failed = FALSE,
                           ![t].result = Some(Returns(GetTopMoves(reply)))]
    /\ inflight' = inflight \ {t}
    /\ UNCHANGED sharedVars
    /\ UNCHANGED loopVars

InitShared ==
    /\ pc = "shared"
    /\ AnalyzerReady
    /\ NoRiskCall
    /\ NoSharing
    /\ NoSimulation

NextShared ==
    \E t \in Threads :
        \/ EvaluatePosition_call(t)
        \/ EvaluatePosition_return(t)
        \/ GetTopMoves_call(t)
        \/ GetTopMoves_return(t)

SpecShared == InitShared /\ [][NextShared]_vars

-----------------------------------------------------------------------------
(* RiskCalculator.monte_carlo_simulation and calculate_risk_metrics *)

\* sample_plausible_moves: no candidate gives no move; otherwise every draw
\* is one of the candidates (each has a positive probability).
SamplePlausibleMoves(top_moves, n_samples) ==
    IF top_moves = <<>> THEN {<<>>}
    ELSE LET cands == {top_moves[k].move : k \in DOMAIN top_moves} IN
         {s \in SeqsUpTo(cands, n_samples) : Len(s) = n_samples}

\* What the engine may answer during a simulation.
SimReplies == {<<>>, <<Reply(300, "other")>>}
SimInfos == {Reply(0 - 200, "none"), Reply(300, "none")}

\* Variant: the engine's score is kept as it is.
Perspective_raw(score, sim_turn, turn) == score

\* Lines 92-95: the score seen from the side to move of the original board.
Perspective(score, sim_turn, turn) ==
    IF sim_turn # turn THEN 0 - score ELSE score

\* sim_board.is_game_over(): the game ends over_after plies from the board
\* the simulation was called with.
IsGameOver(b) ==
    sim.over_after # None /\ Len(b) - Len(sim.boardAtCall) >= sim.over_after[1]

simIdle == <<proc, quits, exc, report, game, max_moves, oracle, callers, inflight,
             stockfish_installed, metrics, feat, riskResult, mono, spm, fx, sam>>

\* Lines 77-78: the next trial starts on a copy of the board.
MC_TrialBegin ==
    /\ pc = "mc_loop"
    /\ Len(sim.trials) < sim.n_simulations
    /\ sim' = [sim EXCEPT !.sim_board = sim.board, !.step = 0, !.stop = ""]
    /\ pc' = "mc_step"
    /\ UNCHANGED simIdle
    /\ UNCHANGED loopVars

\* Variant: the trial plays its moves on the caller's board.
MC_Step_inPlace ==
    /\ pc = "mc_step"
    /\ IF sim.step = sim.depth_horizon * 2
       THEN sim' = [sim EXCEPT !.stop = "horizon"] /\ pc' = "mc_eval"
       ELSE /\ sim' = [sim EXCEPT !.sim_board = Push(sim.sim_board, "other"),
                                   !.board = Push(sim.board, "other"),
                                   !.step = @ + 1]
            /\ pc' = "mc_step"
    /\ UNCHANGED simIdle
    /\ UNCHANGED loopVars

\* Lines 80-88: one iteration of the inner loop, or its end.
MC_Step ==
    /\ pc = "mc_step"
    /\ IF sim.step = sim.depth_horizon * 2
       THEN sim' = [sim EXCEPT !.stop = "horizon"] /\ pc' = "mc_eval"
       ELSE IF IsGameOver(sim.sim_board)
       THEN sim' = [sim EXCEPT !.stop = "game_over"] /\ pc' = "mc_eval"
       ELSE \E reply \in SimReplies :
              \E sampled \in SamplePlausibleMoves(GetTopMoves(reply), 1) :
                 IF sampled = <<>>
                 THEN sim' = [sim EXCEPT !.stop = "no_moves"] /\ pc' = "mc_eval"
                 ELSE /\ sim' = [sim EXCEPT !.sim_board = Push(sim.sim_board, sampled[1]),
                                             !.step = @ + 1]
                      /\ pc' = "mc_step"
    /\ UNCHANGED simIdle
    /\ UNCHANGED loopVars

Trial(raw, sample) ==
    [plies |-> sim.step, stop |-> sim.stop, evaluated |-> sim.sim_board,
     raw |-> raw, sample |-> sample]

\* Variant: an exception of the evaluation ends the loop.
MC_Eval_abort ==
    /\ pc = "mc_eval"
    /\ \/ /\ sim' = [sim EXCEPT !.trials = Append(@, Trial(None, None))]
          /\ pc' = "mc_raised"
       \/ /\ \E info \in SimInfos :
                LET raw == EvaluatePosition(info).score
                    sample == Perspective(raw, WhiteToMove(sim.sim_board),
                                          WhiteToMove(sim.board))
                IN sim' = [sim EXCEPT !.trials = Append(@, Trial(Some(raw), Some(sample))),
                                      !.evaluations = Append(@, sample)]
          /\ pc' = "mc_loop"
    /\ UNCHANGED simIdle
    /\ UNCHANGED loopVars

\* Lines 90-97: the position reached is evaluated; an exception drops the
\* trial.
MC_Eval ==
    /\ pc = "mc_eval"
    /\ \/ sim' = [sim EXCEPT !.trials = Append(@, Trial(None, None))]
       \/ \E info \in SimInfos :
             LET raw == EvaluatePosition(info).score
                 sample == Perspective(raw, WhiteToMove(sim.sim_board),
                                       WhiteToMove(sim.board))
             IN sim' = [sim EXCEPT !.trials = Append(@, Trial(Some(raw), Some(sample))),
                                   !.evaluations = Append(@, sample)]
    /\ pc' = "mc_loop"
    /\ UNCHANGED simIdle
    /\ UNCHANGED loopVars

\* Line 99: the samples are returned, to the caller or to
\* calculate_risk_metrics.
MC_Return ==
    /\ pc = "mc_loop"
    /\ Len(sim.trials) = sim.n_simulations
    /\ pc' = IF sim.entry = "calculate_risk_metrics" THEN "crm_eval" ELSE "mc_returned"
    /\ UNCHANGED sim
    /\ UNCHANGED simIdle
    /\ UNCHANGED loopVars

RiskMetrics(evaluations, current_eval, complexity, tactical, top_moves) ==
    [volatility |-> calculate_volatility(evaluations),
     expected_value |-> ExpectedValue(evaluations, current_eval),
     downside_risk |-> calculate_downside_risk(evaluations, 0 - 100),
     var_95 |-> calculate_var(evaluations),
     complexity_risk |-> complexity,
     tactical_density |-> tactical,
     best_move_edge |-> calculate_move_edge(top_moves)]

\* The tactical counts of the position: checks, captures, hanging pieces.
TacticalCounts == {<<0, 0, 0>>, <<1, 2, 1>>}

\* calculate_risk_metrics, lines 158-182: the direct evaluation (its
\* exception leaves the function) and the metrics.
CRM_Metrics ==
    /\ pc = "crm_eval"
    /\ \/ pc' = "crm_raised" /\ UNCHANGED sim
       \/ \E info \in SimInfos, reply \in TopReplies, tc \in TacticalCounts :
             /\ sim' = [sim EXCEPT !.result =
                           Some([current_eval |-> EvaluatePosition(info),
                                 metrics |->
                                    RiskMetrics(sim.evaluations, EvaluatePosition(info),
                                        30, calculate_tactical_density(tc[1], tc[2], tc[3]),
                                        GetTopMoves(reply))])]
             /\ pc' = "crm_done"
    /\ UNCHANGED simIdle
    /\ UNCHANGED loopVars

SimCalls ==
    {[NoSim EXCEPT !.entry = e, !.n_simulations = n, !.depth_horizon = h,
                   !.board = b, !.boardAtCall = b, !.over_after = o] :
        e \in {"monte_carlo_simulation", "calculate_risk_metrics"},
        n \in 0..MaxSims, h \in 0..MaxHorizon, b \in {<<>>, <<"played">>},
        o \in {None} \cup {Some(k) : k \in 0..MaxHorizon}}

InitSim ==
    /\ pc = "mc_loop"
    /\ AnalyzerReady
    /\ NoRiskCall
    /\ NoSharing
    /\ sim \in SimCalls
    /\ mono = NoMono
    /\ NoHelperCall
    /\ sim.entry = "calculate_risk_metrics" => sim.depth_horizon = DEPTH_HORIZON

NextSim ==
    \/ MC_TrialBegin
    \/ MC_Step
    \/ MC_Eval
    \/ MC_Return
    \/ CRM_Metrics

SpecSim == InitSim /\ [][NextSim]_vars

-----------------------------------------------------------------------------
(* calculate_downside_risk and calculate_tactical_density on an input and on
   the input with one more, or one lower, sample or one count raised *)

Samples == {0 - 300, 0 - 100, 50}
CountValues == {0, 1, 20}

monoIdle == <<proc, quits, exc, report, game, max_moves, oracle, callers, inflight,
              stockfish_installed, metrics, feat, riskResult, sim, spm, fx, sam>>

Compared(op, before, after) ==
    /\ mono' = [mono EXCEPT !.op = op, !.before = before, !.after = after]
    /\ pc' = "mono_done"
    /\ UNCHANGED monoIdle
    /\ UNCHANGED loopVars

\* One more sample, below the threshold.
AddSampleBelow ==
    /\ pc = "mono_start"
    /\ \E e \in Samples :
          /\ e < 0 - 100
          /\ Compared("add_sample",
                      calculate_downside_risk(mono.evaluations, 0 - 100),
                      calculate_downside_risk(Append(mono.evaluations, e), 0 - 100))

\* One sample replaced by a lower one.
LowerSample ==
    /\ pc = "mono_start"
    /\ \E k \in DOMAIN mono.evaluations, e \in Samples :
          /\ e < mono.evaluations[k]
          /\ Compared("lower_sample",
                      calculate_downside_risk(mono.evaluations, 0 - 100),
                      calculate_downside_risk([mono.evaluations EXCEPT ![k] = e], 0 - 100))

\* One of the counts (checks, captures, hanging pieces) raised.
RaiseCount ==
    /\ pc = "mono_start"
    /\ \E i \in 1..3, d \in 1..2 :
          LET c == mono.counts
              r == [c EXCEPT ![i] = @ + d]
          IN Compared("raise_count",
                      Rat(calculate_tactical_density(c[1], c[2], c[3]), 1),
                      Rat(calculate_tactical_density(r[1], r[2], r[3]), 1))

\* A position as calculate_tactical_density sees it: every legal move with
\* board.gives_check and board.is_capture, every piece with its colour and
\* the number of squares' attackers of the other and of its own colour.
Repeat(x, n) == [i \in 1..n |-> x]
LegalMove(check, capture) == [gives_check |-> check, is_capture |-> capture]
Piece(white, attackers, defenders) ==
    [white |-> white, attackers |-> attackers, defenders |-> defenders]

MoveLists ==
    {<<>>,
     Repeat(LegalMove(FALSE, FALSE), 3),
     <<LegalMove(TRUE, FALSE), LegalMove(FALSE, TRUE), LegalMove(TRUE, TRUE),
       LegalMove(FALSE, FALSE)>>,
     Repeat(LegalMove(TRUE, TRUE), 12)}

PieceLists ==
    {<<Piece(TRUE, 0, 0), Piece(FALSE, 0, 0)>>,
     <<Piece(TRUE, 1, 1), Piece(FALSE, 2, 2), Piece(TRUE, 1, 2)>>,
     <<Piece(TRUE, 1, 0), Piece(FALSE, 2, 1), Piece(TRUE, 1, 1), Piece(FALSE, 1, 2)>>,
     Repeat(Piece(FALSE, 2, 1), 3) \o Repeat(Piece(TRUE, 1, 0), 3)}

TacticalPositions ==
    {[legal_moves |-> ms, pieces |-> ps] : ms \in MoveLists, ps \in PieceLists}

\* Lines 124-125.
Checks(position) ==
    Cardinality({k \in DOMAIN position.legal_moves : position.legal_moves[k].gives_check})
Captures(position) ==
    Cardinality({k \in DOMAIN position.legal_moves : position.legal_moves[k].is_capture})

\* Variant: a piece attacked as often as it is defended counts as hanging.
Hanging_balanced(piece) == piece.attackers >= piece.defenders /\ piece.attackers > 0

\* Line 134.
Hanging(piece) == piece.attackers > piece.defenders /\ piece.attackers > 0

\* Lines 128-135.
HangingCount(position) ==
    Cardinality({k \in DOMAIN position.pieces : Hanging(position.pieces[k])})

\* calculate_tactical_density(board) on one position.
TacticalDensity_call ==
    /\ pc = "mono_start"
    /\ \E position \in TacticalPositions :
          LET tactical_density ==
                  calculate_tactical_density(Checks(position), Captures(position),
                                             HangingCount(position))
          IN mono' = [mono EXCEPT !.op = "density", !.position = Some(position),
                                  !.before = Rat(tactical_density, 1),
                                  !.after = Rat(tactical_density, 1)]
    /\ pc' = "mono_done"
    /\ UNCHANGED monoIdle
    /\ UNCHANGED loopVars

InitMono ==
    /\ pc = "mono_start"
    /\ AnalyzerReady
    /\ NoRiskCall
    /\ NoSharing
    /\ sim = NoSim
    /\ NoHelperCall
    /\ mono \in {[NoMono EXCEPT !.evaluations = ev, !.counts = <<a, b, c>>] :
                    ev \in SeqsUpTo(Samples, MaxSamples),
                    a \in CountValues, b \in CountValues, c \in CountValues}

NextMono == AddSampleBelow \/ LowerSample \/ RaiseCount \/ TacticalDensity_call

SpecMono == InitMono /\ [][NextMono]_vars

-----------------------------------------------------------------------------
(* Properties of the game analysis *)

Returned == pc \in {"analysed", "app_done"} /\ game.parsed

Flagged(a) == a.was_blunder \/ a.was_mistake \/ a.was_inaccuracy

\* C2 (as stated): a change of exactly -50 is flagged an inaccuracy, exactly
\* -150 a mistake and exactly -300 a blunder.
C2_ThresholdsInclusive ==
    \A k \in DOMAIN analyses :
        LET a == analyses[k] IN
        /\ a.eval_change = 0 - INACCURACY_THRESHOLD => a.was_inaccuracy
        /\ a.eval_change = 0 - MISTAKE_THRESHOLD => a.was_mistake
        /\ a.eval_change = 0 - BLUNDER_THRESHOLD => a.was_blunder

\* C2 (amended): every threshold belongs to the milder class.  A change of
\* exactly -50 sets no flag, exactly -150 is an inaccuracy and not a mistake,
\* exactly -300 is a mistake and not a blunder.
C2_ThresholdsExclusive ==
    \A k \in DOMAIN analyses :
        LET a == analyses[k] IN
        /\ a.eval_change = 0 - INACCURACY_THRESHOLD => ~Flagged(a)
        /\ a.eval_change = 0 - MISTAKE_THRESHOLD =>
              a.was_inaccuracy /\ ~a.was_mistake /\ ~a.was_blunder
        /\ a.eval_change = 0 - BLUNDER_THRESHOLD =>
              a.was_mistake /\ ~a.was_blunder /\ ~a.was_inaccuracy

C2_Witness ==
    /\ pc = "app_done"
    /\ \E k \in DOMAIN analyses :
          analyses[k].eval_change = 0 - BLUNDER_THRESHOLD /\ analyses[k].was_mistake

\* C3: a move that equals the engine's best move carries none of the blunder,
\* mistake and inaccuracy flags, so a report counts it as a best move only.
C3_BestMoveUnflagged ==
    \A k \in DOMAIN analyses : analyses[k].is_best_move => ~Flagged(analyses[k])

\* C4: when analyze_game has returned, no exception has left it, every move of
\* the list was handed to analyze_move, and the list returned holds exactly
\* the moves whose analysis completed, in input order; the report counts them.
C4_FailedMovesSkipped ==
    Returned =>
        /\ exc = None
        /\ attempted = 1..Len(moves)
        /\ Len(analyses) = Cardinality(completed)
        /\ \A k \in DOMAIN analyses : analyses[k].move \in completed
        /\ \A j, k \in DOMAIN analyses : j < k => analyses[j].move < analyses[k].move
        /\ report.total_moves = Cardinality(completed)

C4_Witness ==
    /\ pc = "app_done"
    /\ engineFailed
    /\ \E i \in attempted \ completed : \E j \in completed : i < j

NumIllegal(ms) == Cardinality({k \in DOMAIN ms : ~ms[k]})

C6_BoardRestored ==
    pc \in {"am_returned", "am_raised"} => board = boardAtCall

\* C7: when the flow has ended, normally or in the handler, the engine process
\* is not running, and it was quit exactly once if it was started.
C7_EngineReleasedOnce ==
    pc \in {"app_done", "app_error"} =>
        /\ proc # "running"
        /\ quits = IF proc = "terminated" THEN 1 ELSE 0

\* C9: consecutive entries of the list have opposite sides to move; the move
\* number stays from a white entry to the next and grows by one from a black
\* entry to the next.
C9_TurnOrder ==
    \A k \in 1..(Len(analyses) - 1) :
        LET a == analyses[k]
            b == analyses[k + 1]
        IN /\ a.white_to_move # b.white_to_move
           /\ b.move_number = IF a.white_to_move THEN a.move_number
                               ELSE a.move_number + 1

ZeroReport ==
    [total_moves |-> 0, white |-> ZeroStats, black |-> ZeroStats,
     highest_risk_move |-> 0, total_blunders |-> 0, total_mistakes |-> 0]

\* C10: an empty analysis list comes with a report whose counts and averages,
\* those of each side included, are all zero.
C10_EmptyGivesZeroReport ==
    (pc \in {"analysed", "app_done"} /\ analyses = <<>>) => report = ZeroReport

-----------------------------------------------------------------------------
(* Properties of the risk score and of the shared analyzer *)

\* C1: the risk score returned, by risk_score for any RiskMetrics and by the
\* cheap variant for any position, lies between 0 and 100 (0 and 10000
\* hundredths).
C1_RiskScoreBounded ==
    riskResult # None => 0 <= riskResult[1].score /\ riskResult[1].score <= 10000

\* Reached: risk_score returned 0 for metrics whose weighted sum is negative.
C1_Witness ==
    /\ pc = "risk_done"
    /\ riskResult[1].variant = "full"
    /\ riskResult[1].score = 0
    /\ metrics = Metrics(0 - 50, 0 - 10, 0 - 20, 0, 1000)

\* C8: at no time are two analysis requests in flight against the engine
\* process of one StockfishAnalyzer.
C8_CallsSerialized == Cardinality(inflight) <= 1

-----------------------------------------------------------------------------
(* Properties of the report *)

\* The entries of one side, as positions of the list.
SideEntries(white) == {k \in DOMAIN analyses : analyses[k].white_to_move = white}

C11_WitnessEmptySide ==
    /\ pc = "app_done"
    /\ Len(analyses) = 1
    /\ report.black = ZeroStats
    /\ report.white.accuracy = Rat(100, 1)

-----------------------------------------------------------------------------
(* Properties of the engine's failures *)

\* C12: when no engine executable is found, construction fails at once with
\* FileNotFoundError: no process is started, no move is analysed, and the
\* flow ends in the handler; the end of an analysis that found no moves
\* carries no exception.
C12_EngineUnavailable ==
    /\ (~stockfish_installed /\ pc # "start") =>
            /\ pc = "app_error"
            /\ exc = Some("FileNotFoundError")
            /\ proc = "none"
            /\ quits = 0
            /\ attempted = {}
            /\ analyses = <<>>
    /\ (pc = "app_done" /\ analyses = <<>>) => exc = None
    /\ exc = Some("FileNotFoundError") => ~stockfish_installed

C12_Witness ==
    /\ ~stockfish_installed
    /\ pc = "app_error"
    /\ game.parsed
    /\ game.mainline # <<>>

\* C13: a call of evaluate_position or get_top_moves in which the engine
\* failed ends with an error for its caller, never with a returned value, and
\* the engine process is not restarted.
C13_EngineFailureSurfaced ==
    /\ \A t \in Threads : callers[t].failed => callers[t].result = Some(Raised)
    /\ pc = "shared" => proc = "running" /\ quits = 0

-----------------------------------------------------------------------------
(* Properties of the simulation *)

\* C14: with n_simulations = 0 the sample list is empty, and when the direct
\* evaluation of the position answers, calculate_risk_metrics returns with
\* expected_value equal to its score and volatility, downside_risk and var_95
\* equal to 0.
C14_NoSimulations ==
    sim.n_simulations = 0 =>
        /\ pc \in {"mc_returned", "crm_eval", "crm_done"} =>
               sim.evaluations = <<>> /\ sim.trials = <<>>
        /\ pc = "crm_done" =>
               LET r == sim.result[1] IN
               /\ r.metrics.expected_value = Rat(r.current_eval.score, 1)
               /\ r.metrics.volatility = 0
               /\ r.metrics.downside_risk = Rat(0, 1)
               /\ r.metrics.var_95 = Rat(0, 1)

C14_Witness ==
    /\ pc = "crm_done"
    /\ sim.n_simulations = 0
    /\ sim.result[1].current_eval.score = 300
    /\ sim.result[1].metrics.expected_value = Rat(300, 1)

-----------------------------------------------------------------------------
(* Scholar's Mate *)

ScholarsMateAnalysed ==
    /\ pc = "app_done"
    /\ game.mainline = ScholarsMate
    /\ ~engineFailed

\* C15 (as stated): the analysis of Scholar's Mate without engine errors has
\* exactly 4 entries.
C15_FourEntries == ScholarsMateAnalysed => Len(analyses) = 4

\* C15 (amended): the analysis of Scholar's Mate without engine errors has
\* one entry for each of its 7 half-moves, the sides alternate from White on,
\* and the evaluation after the last move has the magnitude of the mate
\* sentinel.
C15_OneEntryPerHalfMove ==
    ScholarsMateAnalysed =>
        /\ Len(analyses) = Len(ScholarsMate)
        /\ \A k \in DOMAIN analyses :
              /\ analyses[k].move = k
              /\ analyses[k].white_to_move = (k % 2 = 1)
        /\ Abs(analyses[Len(analyses)].eval_after) = MATE_SCORE

C15_Witness ==
    /\ ScholarsMateAnalysed
    /\ Len(analyses) = Len(ScholarsMate)
    /\ analyses[Len(analyses)].eval_after = MATE_SCORE
    /\ analyses[Len(analyses)].move_number = 4

-----------------------------------------------------------------------------
(* Monotonicity *)

RatLeq(a, b) == a.num * b.den <= b.num * a.den

\* C16: calculate_downside_risk does not decrease when a sample below the
\* threshold is added or a sample is lowered, and calculate_tactical_density
\* does not decrease when one of the counts of checks, captures and hanging
\* pieces is raised.
C16_Monotonic ==
    pc = "mono_done" =>
        /\ mono.before.den > 0
        /\ mono.after.den > 0
        /\ RatLeq(mono.before, mono.after)

\* Reached: a third sample, below the threshold, raises 1/2 to 2/3.
C16_Witness ==
    /\ pc = "mono_done"
    /\ mono.op = "add_sample"
    /\ mono.before = Rat(1, 2)
    /\ mono.after = Rat(2, 3)

-----------------------------------------------------------------------------
(* Classification intervals *)

\* C17: for every entry, eval_change = eval_after - eval_before, and
\* was_inaccuracy iff -150 <= eval_change < -50, was_mistake iff
\* -300 <= eval_change < -150, was_blunder iff eval_change < -300; so no flag
\* is set when eval_change >= -50.
C17_Intervals ==
    \A k \in DOMAIN analyses :
        LET a == analyses[k]
            loss == a.eval_after - a.eval_before
        IN /\ a.eval_change = loss
           /\ a.was_inaccuracy <=> (0 - 150 <= loss /\ loss < 0 - 50)
           /\ a.was_mistake <=> (0 - 300 <= loss /\ loss < 0 - 150)
           /\ a.was_blunder <=> loss < 0 - 300
           /\ loss >= 0 - 50 => ~Flagged(a)

\* Reached: a loss of 200 (a mistake only), from +100 before the move to an
\* engine score of +100 for the opponent after it.
C17_Witness ==
    /\ pc = "app_done"
    /\ Len(analyses) = 1
    /\ analyses[1].eval_before = 100
    /\ analyses[1].eval_after = 0 - 100
    /\ analyses[1].was_mistake
    /\ ~analyses[1].was_inaccuracy
    /\ ~analyses[1].was_blunder

-----------------------------------------------------------------------------
(* Properties of the trials *)

Evaluated == {k \in DOMAIN sim.trials : sim.trials[k].raw # None}

\* The samples of the trials, in order.
RECURSIVE SamplesOf(_)
SamplesOf(ts) ==
    IF ts = <<>> THEN <<>>
    ELSE IF Head(ts).sample = None THEN SamplesOf(Tail(ts))
         ELSE <<Head(ts).sample[1]>> \o SamplesOf(Tail(ts))

\* C18: the sample of a trial is the engine's score of the position the
\* trial reached, negated when the trial made an odd number of plies (the
\* side to move differs from the original one) and unchanged otherwise; the
\* list returned holds these samples.
C18_OriginalPerspective ==
    /\ \A k \in Evaluated :
          LET t == sim.trials[k] IN
          t.sample[1] = IF t.plies % 2 = 1 THEN 0 - t.raw[1] ELSE t.raw[1]
    /\ sim.evaluations = SamplesOf(sim.trials)

\* Reached: a trial of one ply with engine score 300 gave the sample -300 and
\* a trial of two plies with engine score 300 gave the sample 300.
C18_Witness ==
    /\ pc = "mc_returned"
    /\ Len(sim.trials) = 2
    /\ sim.trials[1].plies = 1
    /\ sim.trials[1].raw = Some(300)
    /\ sim.trials[2].plies = 2
    /\ sim.trials[2].raw = Some(300)
    /\ sim.evaluations = <<0 - 300, 300>>

\* C19: the caller's board is never changed; a trial makes at most
\* 2 * depth_horizon plies on its copy, fewer only if the game was over or no
\* move could be sampled, and is evaluated on the board it reached.
C19_TrialBounded ==
    /\ sim.board = sim.boardAtCall
    /\ \A k \in DOMAIN sim.trials :
          LET t == sim.trials[k] IN
          /\ t.plies <= 2 * sim.depth_horizon
          /\ t.plies < 2 * sim.depth_horizon => t.stop \in {"game_over", "no_moves"}
          /\ t.stop = "game_over" => IsGameOver(t.evaluated)
          /\ Len(t.evaluated) = Len(sim.boardAtCall) + t.plies
          /\ SubSeq(t.evaluated, 1, Len(sim.boardAtCall)) = sim.boardAtCall
          /\ \A j \in 0..(t.plies - 1) :
                ~IsGameOver(SubSeq(t.evaluated, 1, Len(sim.boardAtCall) + j))

\* Reached: of two trials with depth_horizon 2, one ran its 4 plies and one
\* stopped after 1 ply because no move could be sampled.
C19_Witness ==
    /\ pc = "mc_returned"
    /\ sim.depth_horizon = 2
    /\ sim.boardAtCall = <<"played">>
    /\ Len(sim.trials) = 2
    /\ sim.trials[1].plies = 4
    /\ sim.trials[1].stop = "horizon"
    /\ sim.trials[2].plies = 1
    /\ sim.trials[2].stop = "no_moves"

\* C20: every trial is made whatever the evaluations before it did, no
\* exception leaves monte_carlo_simulation, and the list returned has one
\* sample for each trial whose evaluation did not raise.
C20_FailedTrialsDropped ==
    /\ pc # "mc_raised"
    /\ Len(sim.trials) <= sim.n_simulations
    /\ Len(sim.evaluations) = Cardinality(Evaluated)
    /\ pc \in {"mc_returned", "crm_eval", "crm_done", "crm_raised"} =>
          /\ Len(sim.trials) = sim.n_simulations
          /\ Len(sim.evaluations) =
                sim.n_simulations
                - Cardinality({k \in DOMAIN sim.trials : sim.trials[k].raw = None})

\* Reached: the first of two evaluations raised, the second gave a sample.
C20_Witness ==
    /\ pc = "mc_returned"
    /\ sim.n_simulations = 2
    /\ sim.trials[1].raw = None
    /\ sim.trials[2].raw # None
    /\ Len(sim.evaluations) = 1

\* Reached: every evaluation raised and the list returned is empty.
C20_WitnessEmpty ==
    /\ pc = "mc_returned"
    /\ sim.n_simulations = 2
    /\ sim.evaluations = <<>>

-----------------------------------------------------------------------------
(* RiskCalculator.sample_plausible_moves, statement by statement *)

\* Variant: as many candidates are requested as there are legal moves.
NumMoves_uncapped(legal) == legal

\* Line 49: the number of candidates requested from the engine.
NumMoves(legal) == Min(TOP_CANDIDATES, legal)

\* The engine's lines for a request of k candidates: k different first
\* moves (numbered), the better ones first.
CandidateLines(k) == [i \in 1..k |-> Reply(100 - 50 * i, i)]

\* chess.Move.from_uci: a well-formed move string gives the move, anything
\* else raises (None here).  str(move) of an engine move is well formed.
UciMoves == 1..(MaxLegal + 1)
FromUci(move_str) == IF move_str \in UciMoves THEN Some(move_str) ELSE None

sampleIdle == <<proc, quits, exc, report, game, max_moves, oracle, callers, inflight,
                stockfish_installed, metrics, feat, riskResult, sim, mono, fx, sam>>

\* Line 49: get_top_moves is asked for min(5, legal moves) candidates; the
\* engine answers with at most that many lines (none when it fails, which
\* get_top_moves turns into the empty list).
SPM_Request ==
    /\ pc = "spm_start"
    /\ \E k \in 0..NumMoves(spm.legal) :
          spm' = [spm EXCEPT !.requested = Some(NumMoves(spm.legal)),
                             !.top_moves = GetTopMoves(CandidateLines(k))]
    /\ pc' = "spm_check"
    /\ UNCHANGED sampleIdle
    /\ UNCHANGED loopVars

\* Lines 51-52: no candidate, no sample.
SPM_Empty ==
    /\ pc = "spm_check"
    /\ spm.top_moves = <<>>
    /\ spm' = [spm EXCEPT !.result = Some(<<>>)]
    /\ pc' = "spm_done"
    /\ UNCHANGED sampleIdle
    /\ UNCHANGED loopVars

\* Lines 54-60: the probabilities (a softmax: every candidate's is
\* positive) and the empty list of sampled moves.
SPM_Probs ==
    /\ pc = "spm_check"
    /\ spm.top_moves # <<>>
    /\ pc' = "spm_draw"
    /\ UNCHANGED spm
    /\ UNCHANGED sampleIdle
    /\ UNCHANGED loopVars

\* Lines 61-68: one draw, with replacement; a move string that does not
\* parse is skipped.
SPM_Draw ==
    /\ pc = "spm_draw"
    /\ spm.draws < spm.n_samples
    /\ \E i \in DOMAIN spm.top_moves :
          LET move == FromUci(spm.top_moves[i].move) IN
          spm' = [spm EXCEPT
                    !.draws = @ + 1,
                    !.sampled_moves = IF move # None THEN Append(@, move[1]) ELSE @]
    /\ UNCHANGED pc
    /\ UNCHANGED sampleIdle
    /\ UNCHANGED loopVars

\* Line 70.
SPM_Return ==
    /\ pc = "spm_draw"
    /\ spm.draws = spm.n_samples
    /\ spm' = [spm EXCEPT !.result = Some(spm.sampled_moves)]
    /\ pc' = "spm_done"
    /\ UNCHANGED sampleIdle
    /\ UNCHANGED loopVars

InitSample ==
    /\ pc = "spm_start"
    /\ AnalyzerReady
    /\ NoRiskCall
    /\ NoSharing
    /\ sim = NoSim
    /\ mono = NoMono
    /\ fx = NoFx
    /\ sam = NoSam
    /\ spm \in {[NoSpm EXCEPT !.legal = l, !.n_samples = n] :
                   l \in 0..MaxLegal, n \in 0..MaxDraws}

NextSample == SPM_Request \/ SPM_Empty \/ SPM_Probs \/ SPM_Draw \/ SPM_Return

SpecSample == InitSample /\ [][NextSample]_vars

-----------------------------------------------------------------------------
(* C21 *)

\* C21: sample_plausible_moves asks the engine for min(5, number of legal
\* moves) candidates; with no candidate it returns the empty list; otherwise
\* it returns at most n_samples moves, each of them one of the candidates.
C21_SampledFromCandidates ==
    /\ pc # "spm_start" /\ spm # NoSpm =>
          spm.requested = Some(IF spm.legal < 5 THEN spm.legal ELSE 5)
    /\ pc = "spm_done" =>
          /\ spm.top_moves = <<>> => spm.result = Some(<<>>)
          /\ Len(spm.result[1]) <= spm.n_samples
          /\ \A i \in DOMAIN spm.result[1] :
                \E k \in DOMAIN spm.top_moves :
                    spm.result[1][i] = spm.top_moves[k].move

\* Six legal moves, five candidates, and the same candidate drawn twice.
C21_Witness ==
    /\ pc = "spm_done"
    /\ spm.legal > 5
    /\ Len(spm.top_moves) = 5
    /\ Len(spm.result[1]) = 2
    /\ spm.result[1][1] = spm.result[1][2]

-----------------------------------------------------------------------------
(* C22 *)

\* The samples of a list that are strictly below a threshold, counted one
\* by one.
RECURSIVE StrictlyBelow(_, _)
StrictlyBelow(evaluations, threshold) ==
    IF evaluations = <<>> THEN 0
    ELSE (IF Head(evaluations) < threshold THEN 1 ELSE 0)
         + StrictlyBelow(Tail(evaluations), threshold)

\* C22: calculate_downside_risk is the fraction of the samples that are
\* strictly below the threshold (a sample equal to it is not counted); it
\* lies in [0, 1] and is 0 for an empty list of samples.
C22_FractionStrictlyBelow ==
    (pc = "mono_done" /\ mono.op \in {"add_sample", "lower_sample"}) =>
        LET r == mono.before
            n == Len(mono.evaluations)
        IN /\ r.den > 0
           /\ 0 <= r.num /\ r.num <= r.den
           /\ n = 0 => r.num = 0
           /\ n > 0 => r.num * n = StrictlyBelow(mono.evaluations, 0 - 100) * r.den

\* Reached: of a sample equal to the threshold and one below it, one half
\* is below.
C22_Witness ==
    /\ pc = "mono_done"
    /\ mono.op = "lower_sample"
    /\ mono.evaluations = <<0 - 100, 0 - 300, 50>>
    /\ mono.before = Rat(1, 3)

\* Reached: no sample, no downside.
C22_WitnessEmpty ==
    /\ pc = "mono_done"
    /\ mono.op = "add_sample"
    /\ mono.evaluations = <<>>
    /\ mono.before = Rat(0, 1)

-----------------------------------------------------------------------------
(* C23 *)

\* C23: calculate_tactical_density is min(5 * checks + 2 * captures +
\* 3 * hanging, 100), where checks and captures are counted over all legal
\* moves and hanging counts the pieces of either colour with strictly more
\* attackers of the other colour than defenders of their own; the result lies
\* in [0, 100].
C23_TacticalDensity ==
    (pc = "mono_done" /\ mono.op = "density") =>
        LET p == mono.position[1]
            checks == Cardinality({k \in DOMAIN p.legal_moves : p.legal_moves[k].gives_check})
            captures == Cardinality({k \in DOMAIN p.legal_moves : p.legal_moves[k].is_capture})
            hanging == Cardinality({k \in DOMAIN p.pieces :
                                      p.pieces[k].attackers > p.pieces[k].defenders})
            raw == 5 * checks + 2 * captures + 3 * hanging
            d == mono.before.num
        IN /\ mono.before.den = 1
           /\ d = IF raw < 100 THEN raw ELSE 100
           /\ 0 <= d /\ d <= 100

\* Reached: two checks, two captures and two hanging pieces (one of each
\* colour; a piece defended as often as attacked is not hanging) give 20.
C23_Witness ==
    /\ pc = "mono_done"
    /\ mono.op = "density"
    /\ mono.position = Some([legal_moves |-> <<LegalMove(TRUE, FALSE), LegalMove(FALSE, TRUE),
                                                LegalMove(TRUE, TRUE), LegalMove(FALSE, FALSE)>>,
                              pieces |-> <<Piece(TRUE, 1, 0), Piece(FALSE, 2, 1),
                                           Piece(TRUE, 1, 1), Piece(FALSE, 1, 2)>>])
    /\ mono.before = Rat(20, 1)

\* Reached: twelve checking captures and six hanging pieces would give 102
\* and are capped at 100.
C23_WitnessCapped ==
    /\ pc = "mono_done"
    /\ mono.op = "density"
    /\ Len(mono.position[1].legal_moves) = 12
    /\ Len(mono.position[1].pieces) = 6
    /\ mono.before = Rat(100, 1)

-----------------------------------------------------------------------------
(* StockfishAnalyzer.analyze_move, statement by statement *)

\* What the engine may answer: centipawns, a mate distance (negative, zero,
\* positive) or neither.
AdapterInfos ==
    Infos({0 - 100, 0, 250}, {0 - 1, 0, 2})
    \cup {[cp |-> None, mate |-> None, pv |-> "none"]}

adapterIdle == <<proc, quits, exc, report, game, max_moves, oracle, callers, inflight,
                 stockfish_installed, metrics, feat, riskResult, sim, mono, spm, fx>>

\* Line 101: the position before the move.  engine.analyse may raise.
SAM_EvalBefore ==
    /\ pc = "sam_start"
    /\ \/ /\ pc' = "sam_raised"
          /\ UNCHANGED sam
       \/ /\ \E info \in AdapterInfos :
                sam' = [sam EXCEPT !.infos = Append(@, info),
                                   !.eval_before = Some(EvaluatePosition(info))]
          /\ pc' = "sam_push"
    /\ UNCHANGED adapterIdle
    /\ UNCHANGED loopVars

\* Line 104.
SAM_Push ==
    /\ pc = "sam_push"
    /\ sam' = [sam EXCEPT !.board = Push(@, sam.move)]
    /\ pc' = "sam_eval_after"
    /\ UNCHANGED adapterIdle
    /\ UNCHANGED loopVars

\* Line 105: the position after the move, seen by the opponent.
SAM_EvalAfter ==
    /\ pc = "sam_eval_after"
    /\ \/ /\ pc' = "sam_raised"
          /\ UNCHANGED sam
       \/ /\ \E info \in AdapterInfos :
                sam' = [sam EXCEPT !.infos = Append(@, info),
                                   !.eval_after = Some(EvaluatePosition(info))]
          /\ pc' = "sam_pop"
    /\ UNCHANGED adapterIdle
    /\ UNCHANGED loopVars

\* Line 106.
SAM_Pop ==
    /\ pc = "sam_pop"
    /\ sam' = [sam EXCEPT !.board = Pop(@)]
    /\ pc' = "sam_return"
    /\ UNCHANGED adapterIdle
    /\ UNCHANGED loopVars

\* Line 110: eval_before.score - (-eval_after.score).
ScoreChange(eval_before, eval_after) == eval_before.score - (0 - eval_after.score)

\* Lines 108-117.
SAM_Return ==
    /\ pc = "sam_return"
    /\ sam' = [sam EXCEPT !.result =
                  Some([eval_before |-> sam.eval_before[1].score,
                        eval_after |-> 0 - sam.eval_after[1].score,
                        score_change |-> ScoreChange(sam.eval_before[1], sam.eval_after[1]),
                        is_best |-> sam.move = sam.eval_before[1].best_move])]
    /\ pc' = "sam_done"
    /\ UNCHANGED adapterIdle
    /\ UNCHANGED loopVars

InitAdapter ==
    /\ pc = "sam_start"
    /\ AnalyzerReady
    /\ NoRiskCall
    /\ NoSharing
    /\ sim = NoSim
    /\ mono = NoMono
    /\ spm = NoSpm
    /\ fx = NoFx
    /\ sam \in {[NoSam EXCEPT !.board = b, !.boardAtCall = b, !.move = m] :
                   b \in {<<>>, <<"first">>}, m \in {"played", "other"}}

NextAdapter == SAM_EvalBefore \/ SAM_Push \/ SAM_EvalAfter \/ SAM_Pop \/ SAM_Return

SpecAdapter == InitAdapter /\ [][NextAdapter]_vars

-----------------------------------------------------------------------------
(* C24 *)

\* The evaluations made so far, in the order of the engine's answers.
SamEvaluations ==
    (IF sam.eval_before # None THEN <<sam.eval_before[1]>> ELSE <<>>)
    \o (IF sam.eval_after # None THEN <<sam.eval_after[1]>> ELSE <<>>)

\* C24: evaluate_position maps a mate announcement onto a sentinel: with a
\* mate distance given the score is +10000 if the distance is positive and
\* -10000 otherwise (a distance of 0 included); with none given it is the
\* engine's centipawn value, or 0 if the engine gave none.
C24_MateSentinel ==
    /\ Len(SamEvaluations) = Len(sam.infos)
    /\ \A i \in DOMAIN sam.infos :
          LET info == sam.infos[i]
              score == SamEvaluations[i].score
          IN /\ SamEvaluations[i].mate_in = info.mate
             /\ (info.mate # None /\ info.mate[1] > 0) => score = 10000
             /\ (info.mate # None /\ info.mate[1] <= 0) => score = 0 - 10000
             /\ (info.mate = None /\ info.cp # None) => score = info.cp[1]
             /\ (info.mate = None /\ info.cp = None) => score = 0

\* Reached: a mate distance of 0 before the move (-10000) and a mate in 2
\* after it (+10000).
C24_Witness ==
    /\ pc = "sam_done"
    /\ sam.infos[1].mate = Some(0)
    /\ sam.eval_before[1].score = 0 - 10000
    /\ sam.infos[2].mate = Some(2)
    /\ sam.eval_after[1].score = 10000

\* Reached: no mate and no centipawn value give 0.
C24_WitnessNoScore ==
    /\ pc = "sam_done"
    /\ sam.infos[1].mate = None
    /\ sam.infos[1].cp = None
    /\ sam.eval_before[1].score = 0

-----------------------------------------------------------------------------
(* C28 *)

\* C28 (as stated): the score_change of StockfishAnalyzer.analyze_move is
\* positive exactly when the evaluation after the move, seen by the mover, is
\* higher than the evaluation before it, and negative exactly when it is
\* lower: its sign is that of eval_after - eval_before, the eval_change of
\* GameAnalyzer.analyze_move.
C28_PositiveIsGood ==
    pc = "sam_done" =>
        LET r == sam.result[1]
            eval_change == r.eval_after - r.eval_before
        IN /\ r.score_change > 0 <=> eval_change > 0
           /\ r.score_change < 0 <=> eval_change < 0

\* What the code computes: score_change is the loss of the mover, the
\* opposite of eval_after - eval_before.
C28_ScoreChangeIsLoss ==
    pc = "sam_done" =>
        LET r == sam.result[1]
        IN r.score_change = r.eval_before - r.eval_after

-----------------------------------------------------------------------------
(* C25 *)

\* C25 (as stated): with max_moves = n given, only the first n moves are
\* analysed and the result has at most n entries, for every n >= 0; n = 0
\* gives no entry.
C25_AtMostMaxMoves ==
    max_moves # None =>
        /\ Len(analyses) <= max_moves[1]
        /\ \A k \in attempted : k <= max_moves[1]

\* What the code does: the cap holds for n >= 1; n = 0 is taken as no cap.
C25_PositiveCapOnly ==
    (max_moves # None /\ max_moves[1] >= 1) =>
        /\ Len(analyses) <= max_moves[1]
        /\ \A k \in attempted : k <= max_moves[1]

-----------------------------------------------------------------------------
(* C26 *)

\* analyze_move has been entered for the move at idx and analyze_game has
\* not yet gone on to the next move.
InAnalyzeMove ==
    pc \in {"am_risk", "am_eval_before", "am_best", "am_push", "am_pop",
            "am_returned", "am_raised"}

\* C26 (as stated): analyze_game takes the moves of a legal move list
\* strictly in order on one working board: when the analysis of the k-th
\* move starts, the board is the starting position followed by the first
\* k - 1 moves, whether or not the analysis of an earlier move raised and
\* was skipped.
C26_BoardInStep ==
    (InAnalyzeMove /\ \A k \in DOMAIN game.mainline : game.mainline[k]) =>
        boardAtCall = [k \in 1..(idx - 1) |-> k]

\* What the code keeps: the moves are started in order, each at most once.
C26_MovesInOrder ==
    /\ attempted \subseteq 1..Len(moves)
    /\ InAnalyzeMove => attempted = 1..idx
    /\ pc = "loop" => attempted = 1..(idx - 1)

-----------------------------------------------------------------------------
(* PositionFeatures.mobility, position_complexity and extract_all_features *)

\* A position as the extractor sees it: the legal moves of the side to move
\* and of the other side, the pieces and their material, and whether the
\* library refuses a null move on it (the code expects it to when the side
\* to move is in check).
FeatPositions ==
    {[own_moves |-> a, opp_moves |-> b, piece_count |-> pm[1], total_material |-> pm[2],
      null_move_raises |-> r] :
        a \in {0, 20}, b \in {0, 30}, pm \in {<<32, 7800>>, <<3, 100>>}, r \in BOOLEAN}

\* board.legal_moves.count(): the moves of the side that is to move on the
\* board as it is now, null moves pushed included.
LegalMovesCount(f) ==
    IF (Len(f.board) - Len(f.boardAtCall)) % 2 = 0
    THEN f.position[1].own_moves
    ELSE f.position[1].opp_moves

\* Lines 177-179, in three-hundredths of a point.
PositionComplexity(position, mobility) ==
    Min(200 * position.piece_count
        + 10 * (mobility.current_player_mobility + mobility.opponent_mobility)
        + position.total_material,
        30000)

featIdle == <<proc, quits, exc, report, game, max_moves, oracle, callers, inflight,
              stockfish_installed, metrics, feat, riskResult, sim, mono, spm, sam>>

\* Lines 114 and 117.
Mobility_begin ==
    /\ pc = "mob_start"
    /\ fx' = [fx EXCEPT !.current_mobility = LegalMovesCount(fx),
                        !.opponent_mobility = 0]
    /\ pc' = "mob_push"
    /\ UNCHANGED featIdle
    /\ UNCHANGED loopVars

\* Line 119, inside try: the null move is pushed, or the push raises.
Mobility_push ==
    /\ pc = "mob_push"
    /\ IF fx.position[1].null_move_raises
       THEN /\ fx' = [fx EXCEPT !.swallowed = Append(@, "push")]
            /\ pc' = "mob_except"
       ELSE /\ fx' = [fx EXCEPT !.board = Push(@, "null")]
            /\ pc' = "mob_count"
    /\ UNCHANGED featIdle
    /\ UNCHANGED loopVars

\* Line 120, inside try: the opponent's moves are counted, or an exception
\* arrives while they are (the handler below catches every exception, an
\* interrupt included).
Mobility_count ==
    /\ pc = "mob_count"
    /\ \/ /\ fx' = [fx EXCEPT !.opponent_mobility = LegalMovesCount(fx)]
          /\ pc' = "mob_pop"
       \/ /\ fx' = [fx EXCEPT !.swallowed = Append(@, "count")]
          /\ pc' = "mob_except"
    /\ UNCHANGED featIdle
    /\ UNCHANGED loopVars

\* Line 121, inside try.
Mobility_pop ==
    /\ pc = "mob_pop"
    /\ fx' = [fx EXCEPT !.board = Pop(@)]
    /\ pc' = "mob_return"
    /\ UNCHANGED featIdle
    /\ UNCHANGED loopVars

\* Lines 122-124: the bare except sets the count to 0 and goes on.
Mobility_except ==
    /\ pc = "mob_except"
    /\ fx' = [fx EXCEPT !.opponent_mobility = 0]
    /\ pc' = "mob_return"
    /\ UNCHANGED featIdle
    /\ UNCHANGED loopVars

\* Lines 126-130: the three numbers; extract_all_features goes on to
\* position_complexity (line 208), which calls mobility again (line 170).
Mobility_return ==
    /\ pc = "mob_return"
    /\ fx.site = "extract_all_features"
    /\ fx' = [fx EXCEPT
                 !.mobilities = Append(@,
                     [current_player_mobility |-> fx.current_mobility,
                      opponent_mobility |-> fx.opponent_mobility,
                      mobility_advantage |-> fx.current_mobility - fx.opponent_mobility]),
                 !.site = "position_complexity"]
    /\ pc' = "mob_start"
    /\ UNCHANGED featIdle
    /\ UNCHANGED loopVars

\* Lines 170-179 and 208-219: the complexity and the features returned.
ExtractAllFeatures_return ==
    /\ pc = "mob_return"
    /\ fx.site = "position_complexity"
    /\ LET mobility == [current_player_mobility |-> fx.current_mobility,
                        opponent_mobility |-> fx.opponent_mobility,
                        mobility_advantage |-> fx.current_mobility - fx.opponent_mobility]
       IN fx' = [fx EXCEPT
                   !.mobilities = Append(@, mobility),
                   !.site = "",
                   !.result = Some([current_player_mobility |->
                                        fx.mobilities[1].current_player_mobility,
                                    opponent_mobility |-> fx.mobilities[1].opponent_mobility,
                                    mobility_advantage |-> fx.mobilities[1].mobility_advantage,
                                    complexity |-> PositionComplexity(fx.position[1], mobility)])]
    /\ pc' = "feat_done"
    /\ UNCHANGED featIdle
    /\ UNCHANGED loopVars

InitFeat ==
    /\ pc = "mob_start"
    /\ AnalyzerReady
    /\ NoRiskCall
    /\ NoSharing
    /\ sim = NoSim
    /\ mono = NoMono
    /\ spm = NoSpm
    /\ sam = NoSam
    /\ fx \in {[NoFx EXCEPT !.board = b, !.boardAtCall = b, !.position = Some(p),
                             !.site = "extract_all_features"] :
                  b \in {<<>>, <<"first">>}, p \in FeatPositions}

NextFeat ==
    \/ Mobility_begin
    \/ Mobility_push
    \/ Mobility_count
    \/ Mobility_pop
    \/ Mobility_except
    \/ Mobility_return
    \/ ExtractAllFeatures_return

SpecFeat == InitFeat /\ [][NextFeat]_vars

-----------------------------------------------------------------------------
(* C27 *)

\* C27 (as stated): the feature extractor is pure.  mobility,
\* position_complexity and extract_all_features leave the board unchanged
\* (the null move pushed to count the opponent's moves is popped on every
\* path through mobility), call no engine, and two mobility computations on
\* the same position give the same numbers.
C27_ExtractorPure ==
    /\ pc \in {"mob_return", "feat_done"} => fx.board = fx.boardAtCall
    /\ pc = "feat_done" => fx.mobilities[1] = fx.mobilities[2]
    /\ inflight = {}

\* What the code keeps: the board is restored by every call in which no
\* exception arrives between the push and the pop, and no engine is called.
C27_PureUnlessInterrupted ==
    /\ (pc \in {"mob_return", "feat_done"}
          /\ \A k \in DOMAIN fx.swallowed : fx.swallowed[k] # "count")
          => fx.board = fx.boardAtCall
    /\ (pc = "feat_done" /\ fx.swallowed = <<>>) => fx.mobilities[1] = fx.mobilities[2]
    /\ inflight = {}

-----------------------------------------------------------------------------
(* C30 *)

\* The ranges of the RiskMetrics that calculate_risk_metrics produces: a
\* standard deviation, a fraction (in percent), two scores of 0..100 and an
\* absolute difference.
MetricsInRange(m) ==
    /\ m.volatility >= 0
    /\ 0 <= m.downside_risk /\ m.downside_risk <= 100
    /\ 0 <= m.complexity_risk /\ m.complexity_risk <= 100
    /\ 0 <= m.tactical_density /\ m.tactical_density <= 100
    /\ m.best_move_edge >= 0

\* C30: for RiskMetrics in the ranges calculate_risk_metrics produces,
\* risk_score is at most 90 (9000 hundredths): the upper clamp at 100 never
\* takes effect and only the lower clamp at 0 can; the edge term lowers the
\* score by at most 10 points.
C30_AtMostNinety ==
    (pc = "risk_done" /\ riskResult[1].variant = "full" /\ MetricsInRange(metrics)) =>
        LET m == metrics
            score == riskResult[1].score
            raw == 3 * (IF m.volatility < 1000 THEN m.volatility ELSE 1000)
                   + 25 * m.downside_risk + 20 * m.complexity_risk
                   + 15 * m.tactical_density
                   - 10 * (IF m.best_move_edge < 100 THEN m.best_move_edge ELSE 100)
            without_edge == RiskScore([m EXCEPT !.best_move_edge = 0])
        IN /\ score <= 9000
           /\ raw <= 9000
           /\ score = IF raw < 0 THEN 0 ELSE raw
           /\ 0 <= without_edge - score
           /\ without_edge - score <= 1000

\* Reached: every term at its maximum and no edge give exactly 90.
C30_Witness ==
    /\ pc = "risk_done"
    /\ riskResult[1].variant = "full"
    /\ metrics = Metrics(20000, 100, 100, 100, 0)
    /\ riskResult[1].score = 9000

\* Reached: the lower clamp takes effect (an edge and nothing else).
C30_WitnessLowerClamp ==
    /\ pc = "risk_done"
    /\ riskResult[1].variant = "full"
    /\ metrics = Metrics(0, 0, 0, 0, 50)
    /\ riskResult[1].score = 0

\* Reached: the edge term takes its full 10 points off a score of 30.
C30_WitnessEdge ==
    /\ pc = "risk_done"
    /\ riskResult[1].variant = "full"
    /\ metrics = Metrics(20000, 0, 0, 0, 1000)
    /\ riskResult[1].score = 2000

-----------------------------------------------------------------------------
(* C29 *)

\* How many of the three flags an entry has.
NumFlags(a) ==
    (IF a.was_blunder THEN 1 ELSE 0) + (IF a.was_mistake THEN 1 ELSE 0)
    + (IF a.was_inaccuracy THEN 1 ELSE 0)

\* C29: every entry has at most one of was_blunder, was_mistake and
\* was_inaccuracy; so in the report of a list with at least one entry each
\* side's num_blunders + num_mistakes + num_inaccuracies is at most the
\* number of that side's entries, and total_blunders is the sum of the two
\* sides' num_blunders.
C29_FlagsExclusive ==
    /\ \A k \in DOMAIN analyses : NumFlags(analyses[k]) <= 1
    /\ (pc \in {"analysed", "app_done"} /\ analyses # <<>>) =>
          /\ \A white \in BOOLEAN :
                LET st == IF white THEN report.white ELSE report.black
                IN st.num_blunders + st.num_mistakes + st.num_inaccuracies
                       <= Cardinality(SideEntries(white))
          /\ report.total_blunders
                = report.white.num_blunders + report.black.num_blunders

\* Reached: a blunder by each side in a game of three entries.
C29_Witness ==
    /\ pc = "app_done"
    /\ Len(analyses) = 3
    /\ report.white.num_blunders = 1
    /\ report.black.num_blunders = 1
    /\ report.total_blunders = 2

\* Reached: a mistake that is neither a blunder nor an inaccuracy.
C29_WitnessMistake ==
    /\ pc = "app_done"
    /\ Len(analyses) = 1
    /\ analyses[1].was_mistake
    /\ report.white.num_mistakes = 1
    /\ report.white.num_blunders + report.white.num_inaccuracies = 0

====
